---- MODULE Spec2Model ----
(***************************************************************************)
(* A model of the GraphRAG retrieval engine (src/graphrag).                *)
(*                                                                         *)
(* Texts are sequences of one-character strings, so that tokenisation,     *)
(* the entity pattern, lower-casing and substring containment are computed *)
(* character by character as the Python code computes them.  Python dicts  *)
(* are sequences of entries in insertion order.  Floats are fixed-point    *)
(* integers: idf in hundredths, term frequency in twelfths, similarity     *)
(* scores in units of 1/500 (resolved to 1/100, so that the product with   *)
(* the decay 0.8 is exact).                                                *)
(***************************************************************************)
EXTENDS Integers, Sequences, FiniteSets, TLC

VARIABLES
    chunks,            \* artifacts.chunks: the ordered Chunk list
    min_freq,          \* the min_freq argument of extract_entities
    entities,          \* Dict[str, Entity] in insertion order
    graph,             \* the networkx Graph
    chunk_index,       \* GraphRetriever.chunk_index
    vocabulary,        \* BagOfWordsEmbedder.vocabulary (tokens in index order)
    idf,               \* BagOfWordsEmbedder.idf
    chunk_embeddings,  \* GraphRetriever.chunk_embeddings, in insertion order
    last,              \* the latest query call: arguments, locals, outcome
    memo,              \* an earlier query call kept for comparison
    stage,             \* how far the build has come: "input", "entities", "built"
    doc_list,          \* artifacts.documents: the ordered Document list
    relation_objs,     \* the Relation list returned by extract_relations
    embed,             \* the latest call on the embedder, and how often fit ran
    calls,             \* the locals of the query calls in progress, per caller
    chunker            \* the locals of the chunk_document call in progress

vars == <<chunks, min_freq, entities, graph, chunk_index, vocabulary, idf,
          chunk_embeddings, last, memo, stage, doc_list, relation_objs, embed,
          calls, chunker>>

(***************************************************************************)
(* Bounds of the model.                                                    *)
(***************************************************************************)
MaxChunks == 3
MaxK == 3
MaxExtractChunks == 2
MaxMinFreq == 3

(***************************************************************************)
(* Generic helpers on sequences.                                           *)
(***************************************************************************)
Range(s) == {s[i] : i \in 1..Len(s)}

Min(a, b) == IF a <= b THEN a ELSE b

Max(a, b) == IF a >= b THEN a ELSE b

\* The first position of x in s, 0 when absent.
IndexOf(s, x) ==
    IF \E i \in 1..Len(s) : s[i] = x
    THEN CHOOSE i \in 1..Len(s) : s[i] = x /\ \A j \in 1..(i-1) : s[j] # x
    ELSE 0

\* Statement order: x is computed before y is.
Then(x, y) == IF x = x THEN y ELSE y

RECURSIVE SumSeq(_)
SumSeq(s) == IF s = <<>> THEN 0 ELSE Head(s) + SumSeq(Tail(s))

\* One step of the bitwise integer square root.
ISqrtBits(n, r, bit) == IF (r + bit) * (r + bit) <= n THEN r + bit ELSE r

\* The largest r with r * r <= n (n < 2^26): math.sqrt, truncated.
ISqrt(n) ==
    LET r12 == ISqrtBits(n, 0, 4096)
        r11 == ISqrtBits(n, r12, 2048)
        r10 == ISqrtBits(n, r11, 1024)
        r9  == ISqrtBits(n, r10, 512)
        r8  == ISqrtBits(n, r9, 256)
        r7  == ISqrtBits(n, r8, 128)
        r6  == ISqrtBits(n, r7, 64)
        r5  == ISqrtBits(n, r6, 32)
        r4  == ISqrtBits(n, r5, 16)
        r3  == ISqrtBits(n, r4, 8)
        r2  == ISqrtBits(n, r3, 4)
        r1  == ISqrtBits(n, r2, 2)
    IN  ISqrtBits(n, r1, 1)

(***************************************************************************)
(* Characters.                                                             *)
(***************************************************************************)
UpperChars == {"A", "B", "L", "O", "P", "W"}

LowerChars ==
    {"a", "b", "c", "d", "e", "f", "g", "h", "i", "l", "m", "n", "o", "p", "r", "s",
     "t", "v", "w", "x", "y", "z"}

DigitChars == {"1"}

SpaceChars == {" "}

\* str.lower() on one character.
LowerChar(c) ==
    CASE c = "A" -> "a"
      [] c = "B" -> "b"
      [] c = "L" -> "l"
      [] c = "O" -> "o"
      [] c = "P" -> "p"
      [] c = "W" -> "w"
      [] OTHER -> c

LowerText(t) == [i \in 1..Len(t) |-> LowerChar(t[i])]

\* Code-point order of the characters in use (Python compares str so).
CharRank(c) ==
    CASE c = " " -> 32
      [] c = "-" -> 45
      [] c = "." -> 46
      [] c = "0" -> 48
      [] c = "1" -> 49
      [] c = "2" -> 50
      [] c = "3" -> 51
      [] c = "4" -> 52
      [] c = "5" -> 53
      [] c = "6" -> 54
      [] c = "7" -> 55
      [] c = "8" -> 56
      [] c = "9" -> 57
      [] c = ":" -> 58
      [] c = "?" -> 63
      [] c = "A" -> 65
      [] c = "B" -> 66
      [] c = "L" -> 76
      [] c = "O" -> 79
      [] c = "P" -> 80
      [] c = "W" -> 87
      [] c = "_" -> 95
      [] c = "a" -> 97
      [] c = "b" -> 98
      [] c = "c" -> 99
      [] c = "d" -> 100
      [] c = "e" -> 101
      [] c = "f" -> 102
      [] c = "g" -> 103
      [] c = "h" -> 104
      [] c = "i" -> 105
      [] c = "k" -> 107
      [] c = "l" -> 108
      [] c = "m" -> 109
      [] c = "n" -> 110
      [] c = "o" -> 111
      [] c = "p" -> 112
      [] c = "r" -> 114
      [] c = "s" -> 115
      [] c = "t" -> 116
      [] c = "u" -> 117
      [] c = "v" -> 118
      [] c = "w" -> 119
      [] c = "x" -> 120
      [] c = "y" -> 121
      [] c = "z" -> 122

\* a < b for two str values.
RECURSIVE StrLess(_, _)
StrLess(a, b) ==
    IF b = <<>> THEN FALSE
    ELSE IF a = <<>> THEN TRUE
    ELSE IF Head(a) = Head(b) THEN StrLess(Tail(a), Tail(b))
    ELSE CharRank(Head(a)) < CharRank(Head(b))

\* sorted(S) for a set of str.
RECURSIVE SortedStrings(_)
SortedStrings(S) ==
    IF S = {} THEN <<>>
    ELSE LET m == CHOOSE x \in S : \A y \in S \ {x} : StrLess(x, y)
         IN  <<m>> \o SortedStrings(S \ {m})

\* Mutant of Contains: the needle is looked for at the start of the text only.
StartsWith(text, needle) ==
    /\ Len(needle) <= Len(text)
    /\ \A j \in 1..Len(needle) : text[j] = needle[j]

\* needle in text (substring containment).
Contains(text, needle) ==
    \E i \in 0..(Len(text) - Len(needle)) :
        \A j \in 1..Len(needle) : text[i + j] = needle[j]

(***************************************************************************)
(* embedder.py                                                             *)
(***************************************************************************)
IsTokenChar(c) == c \in LowerChars \cup DigitChars

\* The run in progress is closed: it joins the finished runs unless empty.
CloseRun(st) == IF st.cur = <<>> THEN st.out ELSE Append(st.out, st.cur)

\* [a-z0-9]+ at one character: it extends the run in progress or closes it.
TokenScan(st, t, i) ==
    IF IsTokenChar(t[i])
    THEN [cur |-> Append(st.cur, t[i]), out |-> st.out]
    ELSE [cur |-> <<>>, out |-> CloseRun(st)]

\* TokenScan over t[lo..hi] from left to right, starting from st.  The range
\* is halved, which keeps the evaluation shallow on long texts.
RECURSIVE TokenFold(_, _, _, _)
TokenFold(t, lo, hi, st) ==
    IF lo > hi THEN st
    ELSE IF lo = hi THEN TokenScan(st, t, lo)
    ELSE LET mid == (lo + hi) \div 2
             left == TokenFold(t, lo, mid, st)
         IN  Then(left, TokenFold(t, mid + 1, hi, left))

\* TOKEN_PATTERN.findall(text.lower())
tokenize(text) ==
    CloseRun(TokenFold(LowerText(text), 1, Len(text), [cur |-> <<>>, out |-> <<>>]))

\* math.log(1 + doc_count / (1 + containing)), in hundredths.
LnCenti(doc_count, containing) ==
    LET table == << <<41>>,
                    <<69, 51>>,
                    <<92, 69, 56>>,
                    <<110, 85, 69, 59>>,
                    <<125, 98, 81, 69, 61>>,
                    <<139, 110, 92, 79, 69, 62>>,
                    <<150, 120, 101, 88, 77, 69, 63>> >>
    IN  table[doc_count][containing]

\* The tokens of the documents in order of first occurrence.
RECURSIVE FirstOccurrences(_, _)
FirstOccurrences(tokens, out) ==
    IF tokens = <<>> THEN out
    ELSE FirstOccurrences(Tail(tokens),
             IF Head(tokens) \in Range(out) THEN out ELSE Append(out, Head(tokens)))

RECURSIVE AllTokens(_)
AllTokens(documents) ==
    IF documents = <<>> THEN <<>>
    ELSE tokenize(Head(documents)) \o AllTokens(Tail(documents))

\* Mutant of FitVocabulary: the vocabulary is not sorted.
FitVocabularyUnsorted(documents) == FirstOccurrences(AllTokens(documents), <<>>)

\* fit: the vocabulary, as the token list in index order (index = position - 1).
FitVocabulary(documents) ==
    SortedStrings(UNION {Range(tokenize(documents[i])) : i \in 1..Len(documents)})

\* fit: the idf list.
FitIdf(documents) ==
    LET vocab == FitVocabulary(documents)
        doc_count == Len(documents)
        containing(token) ==
            Cardinality({i \in 1..Len(documents) : token \in Range(tokenize(documents[i]))})
    IN  [i \in 1..Len(vocab) |-> LnCenti(doc_count, containing(vocab[i]))]

\* Counter(tokens)[token]
Count(tokens, token) == Cardinality({i \in 1..Len(tokens) : tokens[i] = token})

\* Mutant of NotFitted: transform does not test the vocabulary.
NeverTested(vocab) == FALSE

\* The guard of transform: `if not self.vocabulary`.
NotFitted(vocab) == vocab = <<>>

\* transform, past its guard: the vector in units of 1/1200.
Transform(vocab, idfs, text) ==
    LET tokens == tokenize(text)
        counts == {Count(tokens, tokens[i]) : i \in 1..Len(tokens)}
        max_count == IF tokens = <<>> THEN 1
                     ELSE CHOOSE m \in counts : \A n \in counts : n <= m
        tf(token) == 6 + (6 * Count(tokens, token)) \div max_count
    IN  [i \in 1..Len(vocab) |->
            IF vocab[i] \in Range(tokens) THEN tf(vocab[i]) * idfs[i] ELSE 0]

\* cosine_similarity, in units of 1/500.
cosine_similarity(vec_a, vec_b) ==
    LET n == Min(Len(vec_a), Len(vec_b))
        dot == SumSeq([i \in 1..n |-> vec_a[i] * vec_b[i]])
        norm_a == ISqrt(SumSeq([i \in 1..Len(vec_a) |-> vec_a[i] * vec_a[i]]))
        norm_b == ISqrt(SumSeq([i \in 1..Len(vec_b) |-> vec_b[i] * vec_b[i]]))
    IN  IF norm_a = 0 \/ norm_b = 0 THEN 0
        ELSE ((dot * 100) \div (norm_a * norm_b)) * 5

(***************************************************************************)
(* Python dict and Counter: entries [key, value] in insertion order.       *)
(***************************************************************************)
DictKeys(d) == {d[i].key : i \in 1..Len(d)}

DictGet(d, k) == d[CHOOSE i \in 1..Len(d) : d[i].key = k].value

\* d[k] = v: an existing key keeps its position.
DictSet(d, k, v) ==
    IF k \in DictKeys(d)
    THEN LET i == CHOOSE j \in 1..Len(d) : d[j].key = k
         IN  SubSeq(d, 1, i - 1) \o <<[key |-> k, value |-> v]>> \o SubSeq(d, i + 1, Len(d))
    ELSE Append(d, [key |-> k, value |-> v])

\* Counter.update(items)
RECURSIVE CounterUpdate(_, _)
CounterUpdate(counter, items) ==
    IF items = <<>> THEN counter
    ELSE LET k == Head(items)
             n == IF k \in DictKeys(counter) THEN DictGet(counter, k) ELSE 0
             updated == DictSet(counter, k, n + 1)
         IN  Then(updated, CounterUpdate(updated, Tail(items)))

(***************************************************************************)
(* entity_extraction.py                                                    *)
(***************************************************************************)
IsLetter(c) == c \in UpperChars \cup LowerChars

\* \w
IsWordChar(c) == c \in UpperChars \cup LowerChars \cup DigitChars \cup {"_"}

\* \b at the gap before t[i] (i in 1..Len(t)+1).
Boundary(t, i) ==
    (i > 1 /\ IsWordChar(t[i - 1])) # (i <= Len(t) /\ IsWordChar(t[i]))

\* The end (exclusive) of the run of letters starting at i.
RECURSIVE LetterRunEnd(_, _)
LetterRunEnd(t, i) ==
    IF i > Len(t) \/ ~IsLetter(t[i]) THEN i ELSE LetterRunEnd(t, i + 1)

\* The end (exclusive) of the run of whitespace starting at i.
RECURSIVE SpaceRunEnd(_, _)
SpaceRunEnd(t, i) ==
    IF i > Len(t) \/ t[i] \notin SpaceChars THEN i ELSE SpaceRunEnd(t, i + 1)

\* ENTITY_PATTERN by greedy matching with backtracking; each operator gives
\* the end (exclusive) of the whole match, 0 when there is none.
RECURSIVE StarEnd(_, _)
RECURSIVE SpaceThenWord(_, _, _)
RECURSIVE WordThenStar(_, _, _)

\* (?:\s+[A-Z][a-zA-Z]+)*\b at e
StarEnd(t, e) ==
    LET more == SpaceThenWord(t, e, SpaceRunEnd(t, e))
    IN  IF more # 0 THEN more ELSE IF Boundary(t, e) THEN e ELSE 0

\* \s+ over t[e..w-1], longest first, then a word
SpaceThenWord(t, e, w) ==
    IF w <= e THEN 0
    ELSE LET r == WordThenStar(t, w, LetterRunEnd(t, w + 1))
         IN  IF r # 0 THEN r ELSE SpaceThenWord(t, e, w - 1)

\* [A-Z][a-zA-Z]+ over t[i..x-1], longest first, then the rest
WordThenStar(t, i, x) ==
    IF i > Len(t) \/ t[i] \notin UpperChars \/ x < i + 2 THEN 0
    ELSE LET r == StarEnd(t, x)
         IN  IF r # 0 THEN r ELSE WordThenStar(t, i, x - 1)

MatchEnd(t, i) ==
    IF ~Boundary(t, i) THEN 0 ELSE WordThenStar(t, i, LetterRunEnd(t, i + 1))

\* ENTITY_PATTERN.findall(text): the non-overlapping matches, left to right.
\* The search at position i: positions within the latest match are passed
\* over, a match at i is recorded and the search resumes at its end.
FindAllFrom(st, t, i) ==
    IF i < st.next THEN st
    ELSE LET e == MatchEnd(t, i)
         IN  IF e = 0 THEN st
             ELSE [next |-> e, out |-> Append(st.out, SubSeq(t, i, e - 1))]

\* FindAllFrom over t[lo..hi] from left to right, starting from st.  The range
\* is halved, which keeps the evaluation shallow on long texts.
RECURSIVE FindAllFold(_, _, _, _)
FindAllFold(t, lo, hi, st) ==
    IF lo > hi THEN st
    ELSE IF lo = hi THEN FindAllFrom(st, t, lo)
    ELSE LET mid == (lo + hi) \div 2
             left == FindAllFold(t, lo, mid, st)
         IN  Then(left, FindAllFold(t, mid + 1, hi, left))

FindAll(text) == FindAllFold(text, 1, Len(text), [next |-> 1, out |-> <<>>]).out

\* label.lower().replace(" ", "_")
EntityId(label) ==
    [i \in 1..Len(label) |->
        IF LowerChar(label[i]) = " " THEN "_" ELSE LowerChar(label[i])]

\* The counting loop of extract_entities.
RECURSIVE CountLabels(_, _)
CountLabels(cs, counter) ==
    IF cs = <<>> THEN counter
    ELSE LET updated == CounterUpdate(counter, FindAll(Head(cs).text))
         IN  Then(updated, CountLabels(Tail(cs), updated))

\* The threshold test of extract_entities: `if freq < min_freq: continue`.
BelowMinFreq(freq, mf) == freq < mf

\* The loop over counter.items() of extract_entities.
RECURSIVE KeepEntities(_, _, _)
KeepEntities(counter, mf, out) ==
    IF counter = <<>> THEN out
    ELSE LET label == Head(counter).key
             freq == Head(counter).value
             entity_id == EntityId(label)
             kept == DictSet(out, entity_id,
                         [entity_id |-> entity_id, label |-> label, frequency |-> freq])
         IN  IF BelowMinFreq(freq, mf) THEN KeepEntities(Tail(counter), mf, out)
             ELSE Then(kept, KeepEntities(Tail(counter), mf, kept))

extract_entities(cs, mf) == KeepEntities(CountLabels(cs, <<>>), mf, <<>>)

\* entity_labels = {entity.label: entity_id for entity_id, entity in entities.items()}
RECURSIVE EntityLabels(_, _)
EntityLabels(ents, out) ==
    IF ents = <<>> THEN out
    ELSE EntityLabels(Tail(ents), DictSet(out, Head(ents).value.label, Head(ents).key))

\* Mutant of Combinations2: every pair in both orders, as permutations(s, 2).
Permutations2(s) ==
    LET n == Len(s)
        pairs == [p \in 1..(n * n) |-> <<s[((p - 1) \div n) + 1], s[((p - 1) % n) + 1]>>]
    IN  SelectSeq(pairs, LAMBDA pr : pr[1] # pr[2])

\* combinations(s, 2)
Combinations2(s) ==
    LET pairsFrom[i \in 1..(Len(s) + 1)] ==
            IF i > Len(s) THEN <<>>
            ELSE [j \in 1..(Len(s) - i) |-> <<s[i], s[i + j]>>] \o pairsFrom[i + 1]
    IN  pairsFrom[1]

\* The loop over chunks of extract_relations.
RECURSIVE CountPairs(_, _, _)
CountPairs(cs, labels, relations) ==
    IF cs = <<>> THEN relations
    ELSE LET found == FindAll(Head(cs).text)
             matches == {DictGet(labels, found[i]) :
                            i \in {j \in 1..Len(found) : found[j] \in DictKeys(labels)}}
             updated == CounterUpdate(relations, Combinations2(SortedStrings(matches)))
         IN  Then(updated, CountPairs(Tail(cs), labels, updated))

extract_relations(cs, ents) ==
    LET relations == CountPairs(cs, EntityLabels(ents, <<>>), <<>>)
    IN  [i \in 1..Len(relations) |->
            [head_id |-> relations[i].key[1],
             tail_id |-> relations[i].key[2],
             weight |-> relations[i].value,
             description |-> DictGet(ents, relations[i].key[2]).label]]

(***************************************************************************)
(* networkx.Graph: nodes and adjacency in insertion order, one attribute   *)
(* record per node and per unordered node pair.                            *)
(***************************************************************************)
None == "None"

EmptyGraph ==
    [nodes |-> <<>>, attrs |-> <<>>, adj |-> <<>>, edges |-> <<>>]

\* dict.get(name)
Get(rec, name) == IF name \in DOMAIN rec THEN rec[name] ELSE None

HasNode(G, n) == n \in Range(G.nodes)

\* G.neighbors(n)
Neighbors(G, n) == DictGet(G.adj, n)

\* G[u][v]
EdgeData(G, u, v) == DictGet(G.edges, {u, v})

\* G.add_node(n, **attrs)
AddNode(G, n, attrs) ==
    IF HasNode(G, n)
    THEN [G EXCEPT !.attrs = DictSet(G.attrs, n, attrs @@ DictGet(G.attrs, n))]
    ELSE [G EXCEPT !.nodes = Append(G.nodes, n),
                   !.attrs = DictSet(G.attrs, n, attrs),
                   !.adj = DictSet(G.adj, n, <<>>)]

\* G.add_edge(u, v, **attrs)
AddEdge(G, u, v, attrs) ==
    LET G1 == IF HasNode(G, u) THEN G ELSE AddNode(G, u, <<>>)
        G2 == IF HasNode(G1, v) THEN G1 ELSE AddNode(G1, v, <<>>)
        old == IF {u, v} \in DictKeys(G2.edges) THEN DictGet(G2.edges, {u, v}) ELSE <<>>
        adjU == IF v \in Range(Neighbors(G2, u)) THEN G2.adj
                ELSE DictSet(G2.adj, u, Append(Neighbors(G2, u), v))
        nbV == DictGet(adjU, v)
        adjV == IF u \in Range(nbV) THEN adjU ELSE DictSet(adjU, v, Append(nbV, u))
    IN  [G2 EXCEPT !.adj = adjV, !.edges = DictSet(G2.edges, {u, v}, attrs @@ old)]

(***************************************************************************)
(* graph_builder.py                                                        *)
(***************************************************************************)
RECURSIVE AddChunkNodes(_, _)
AddChunkNodes(G, cs) ==
    IF cs = <<>> THEN G
    ELSE LET added == AddNode(G, Head(cs).chunk_id,
                          [type |-> "chunk", doc_id |-> Head(cs).doc_id,
                           text |-> Head(cs).text])
         IN  Then(added, AddChunkNodes(added, Tail(cs)))

RECURSIVE AddEntityNodes(_, _)
AddEntityNodes(G, ents) ==
    IF ents = <<>> THEN G
    ELSE LET added == AddNode(G, Head(ents).value.entity_id,
                          [type |-> "entity", label |-> Head(ents).value.label,
                           frequency |-> Head(ents).value.frequency])
         IN  Then(added, AddEntityNodes(added, Tail(ents)))

\* The inner loop of the mentions pass: the entities whose label is in the text.
RECURSIVE AddMentions(_, _, _)
AddMentions(G, chunk, ents) ==
    IF ents = <<>> THEN G
    ELSE LET added == IF Contains(chunk.text, Head(ents).value.label)
                      THEN AddEdge(G, chunk.chunk_id, Head(ents).key,
                               [type |-> "mentions", weight |-> 1])
                      ELSE G
         IN  Then(added, AddMentions(added, chunk, Tail(ents)))

RECURSIVE AddAllMentions(_, _, _)
AddAllMentions(G, cs, ents) ==
    IF cs = <<>> THEN G
    ELSE LET added == AddMentions(G, Head(cs), ents)
         IN  Then(added, AddAllMentions(added, Tail(cs), ents))

\* Mutant of MissingEndpoint: the endpoints of a relation are not looked up.
EndpointsAssumed(G, relation) == FALSE

\* if not graph.has_node(relation.head_id) or not graph.has_node(relation.tail_id)
MissingEndpoint(G, relation) ==
    ~HasNode(G, relation.head_id) \/ ~HasNode(G, relation.tail_id)

RECURSIVE AddRelations(_, _)
AddRelations(G, rels) ==
    IF rels = <<>> THEN G
    ELSE LET added == IF MissingEndpoint(G, Head(rels))
                      THEN G
                      ELSE AddEdge(G, Head(rels).head_id, Head(rels).tail_id,
                               [type |-> "co_occurs", weight |-> Head(rels).weight,
                                description |-> Head(rels).description])
         IN  Then(added, AddRelations(added, Tail(rels)))

build_graph(cs, ents, rels) ==
    AddRelations(
        AddAllMentions(AddEntityNodes(AddChunkNodes(EmptyGraph, cs), ents), cs, ents),
        rels)

(***************************************************************************)
(* chunker.py: chunk ids.                                                  *)
(***************************************************************************)
Digit(i) == <<"0", "1", "2", "3", "4", "5", "6", "7", "8", "9">>[i + 1]

\* str(n) of a non-negative integer.
RECURSIVE IntStr(_)
IntStr(n) == IF n < 10 THEN <<Digit(n)>> ELSE IntStr(n \div 10) \o <<Digit(n % 10)>>

DocId(i) == <<"d", Digit(i)>>

\* Mutant of ChunkId: the index of the chunk is left out of its id.
ChunkIdOfDocument(doc_id, idx) ==
    doc_id \o <<":", ":", "c", "h", "u", "n", "k", "-", "0">>

\* f"{document.doc_id}::chunk-{idx}"
ChunkId(doc_id, idx) ==
    doc_id \o <<":", ":", "c", "h", "u", "n", "k", "-">> \o IntStr(idx)

\* The single chunk of the i-th document, a document shorter than max_tokens.
MakeChunk(i, text) ==
    [chunk_id |-> ChunkId(DocId(i), 0), doc_id |-> DocId(i), text |-> text]

\* str.split(): the maximal runs of characters that are not whitespace.
SplitScan(st, text, i) ==
    IF text[i] \in SpaceChars
    THEN [cur |-> <<>>, out |-> CloseRun(st)]
    ELSE [cur |-> Append(st.cur, text[i]), out |-> st.out]

\* SplitScan over t[lo..hi] from left to right, starting from st.  The range
\* is halved, which keeps the evaluation shallow on long texts.
RECURSIVE SplitFold(_, _, _, _)
SplitFold(t, lo, hi, st) ==
    IF lo > hi THEN st
    ELSE IF lo = hi THEN SplitScan(st, t, lo)
    ELSE LET mid == (lo + hi) \div 2
             left == SplitFold(t, lo, mid, st)
         IN  Then(left, SplitFold(t, mid + 1, hi, left))

Split(text) == CloseRun(SplitFold(text, 1, Len(text), [cur |-> <<>>, out |-> <<>>]))

\* " ".join(tokens[lo..hi])
RECURSIVE JoinRange(_, _, _)
JoinRange(tokens, lo, hi) ==
    IF lo > hi THEN <<>>
    ELSE IF lo = hi THEN tokens[lo]
    ELSE LET mid == (lo + hi) \div 2
         IN  JoinRange(tokens, lo, mid) \o <<" ">> \o JoinRange(tokens, mid + 1, hi)

\* " ".join(tokens)
JoinSpace(tokens) == JoinRange(tokens, 1, Len(tokens))

\* A bound of a Python slice of a list of n items: a negative bound counts
\* from the end, and both bounds are clipped to 0..n.
SliceBound(n, i) == IF i < 0 THEN Max(n + i, 0) ELSE Min(i, n)

\* s[start:end]
Slice(s, start, end) ==
    SubSeq(s, SliceBound(Len(s), start) + 1, SliceBound(Len(s), end))

DefaultMaxTokens == 120

DefaultOverlap == 20

\* The locals of chunk_document at its first test of the loop condition.
StartChunker(document, max_tokens, overlap) ==
    [pc |-> "loop", doc_id |-> document.doc_id, max_tokens |-> max_tokens,
     overlap |-> overlap, tokens |-> Split(document.body), chunks |-> <<>>,
     start |-> 0, idx |-> 0]

\* start = end - overlap
NextStartOffByOne(end, overlap) == end - overlap - 1

NextStart(end, overlap) == end - overlap

\* One test of the loop condition and, when it holds, one pass through the
\* loop body; "done" is the return, reached from the test or from the break.
ChunkerStep(c) ==
    IF ~(c.start < Len(c.tokens)) THEN [c EXCEPT !.pc = "done"]
    ELSE LET end == Min(Len(c.tokens), c.start + c.max_tokens)
             text == JoinSpace(Slice(c.tokens, c.start, end))
             chunk == [chunk_id |-> ChunkId(c.doc_id, c.idx), doc_id |-> c.doc_id,
                       text |-> text]
             appended == Append(c.chunks, chunk)
         IN  IF end = Len(c.tokens)
             THEN [c EXCEPT !.chunks = appended, !.pc = "done"]
             ELSE [c EXCEPT !.chunks = appended,
                            !.start = NextStart(end, c.overlap),
                            !.idx = c.idx + 1]

RECURSIVE RunChunker(_)
RunChunker(c) ==
    IF c.pc = "done" THEN c.chunks
    ELSE LET stepped == ChunkerStep(c) IN Then(stepped, RunChunker(stepped))

chunk_document(document, max_tokens, overlap) ==
    RunChunker(StartChunker(document, max_tokens, overlap))

\* chunk_corpus(documents): every document with the default window.
RECURSIVE chunk_corpus(_)
chunk_corpus(documents) ==
    IF documents = <<>> THEN <<>>
    ELSE chunk_document(Head(documents), DefaultMaxTokens, DefaultOverlap)
             \o chunk_corpus(Tail(documents))

(***************************************************************************)
(* retrieval.py                                                            *)
(***************************************************************************)
\* list.sort(key=score, reverse=True): x goes behind every entry that scores
\* at least as much.
InsertDesc(sorted, x) ==
    LET n == Cardinality({i \in 1..Len(sorted) : sorted[i].score >= x.score})
    IN  SubSeq(sorted, 1, n) \o <<x>> \o SubSeq(sorted, n + 1, Len(sorted))

RECURSIVE StableSortDesc(_, _)
StableSortDesc(s, sorted) ==
    IF s = <<>> THEN sorted ELSE StableSortDesc(Tail(s), InsertDesc(sorted, Head(s)))

\* seq[:k]
SliceTo(s, k) ==
    IF k >= 0 THEN SubSeq(s, 1, Min(k, Len(s)))
    ELSE SubSeq(s, 1, Max(Len(s) + k, 0))

\* A descending sort that is not stable: x goes before the entries of its score.
InsertDescTiesFirst(sorted, x) ==
    LET n == Cardinality({i \in 1..Len(sorted) : sorted[i].score > x.score})
    IN  SubSeq(sorted, 1, n) \o <<x>> \o SubSeq(sorted, n + 1, Len(sorted))

RECURSIVE UnstableSortDesc(_, _)
UnstableSortDesc(s, sorted) ==
    IF s = <<>> THEN sorted
    ELSE UnstableSortDesc(Tail(s), InsertDescTiesFirst(sorted, Head(s)))

\* Mutant of SortScores: the ranking sorted by a sort that reverses ties.
SortScoresUnstable(scores) == UnstableSortDesc(scores, <<>>)

\* scores.sort(key=lambda item: item[1], reverse=True)
SortScores(scores) == StableSortDesc(scores, <<>>)

\* _score_chunks
score_chunks(query_vec) ==
    SortScores([i \in 1..Len(chunk_embeddings) |->
        [chunk_id |-> chunk_embeddings[i].key,
         score |-> cosine_similarity(query_vec, chunk_embeddings[i].value)]])

\* top_chunks = scored_chunks[:k]
TopChunks(scored_chunks, k) == SliceTo(scored_chunks, k)

\* Mutant of NewVisited: the visited set survives from the previous call.
StaleVisited == {last.results[i].chunk_id : i \in 1..Len(last.results)}

\* Mutant of NewVisited: one visited set is shared by the calls in progress.
SharedVisited == UNION {calls[p].visited : p \in DOMAIN calls}

\* visited = set()
NewVisited == {}

\* Mutant of MarkVisited: the chunk is not recorded.
NoMark(visited, chunk_id) == visited

\* visited.add(chunk_id)
MarkVisited(visited, chunk_id) == visited \cup {chunk_id}

\* Mutant of Decay: the seed's score is passed on undecayed.
NoDecay(base_score) == base_score

\* expanded_score = base_score * 0.8
Decay(base_score) == (base_score * 4) \div 5

\* Mutant of IsSeedItself: the walk may return to its seed.
NeverSeedItself(expansion, chunk_id) == FALSE

\* if expansion == chunk_id: continue
IsSeedItself(expansion, chunk_id) == expansion = chunk_id

\* if expansion in visited: continue
AlreadyVisited(expansion, visited) == expansion \in visited

\* if self.graph.nodes[expansion].get("type") != "chunk": continue
NotChunkNode(expansion) == Get(DictGet(graph.attrs, expansion), "type") # "chunk"

\* if edge.get("type") != "mentions": continue
NotMentions(chunk_id, neighbor) == Get(EdgeData(graph, chunk_id, neighbor), "type") # "mentions"

\* results.append(RetrievalResult(...)), raising KeyError when chunk_index
\* has no entry for the chunk.
Emit(acc, chunk_id, score, trail) ==
    IF chunk_id \notin DictKeys(chunk_index)
    THEN [acc EXCEPT !.error = "KeyError"]
    ELSE [acc EXCEPT !.results = Append(@,
             [chunk_id |-> chunk_id, score |-> score,
              text |-> DictGet(chunk_index, chunk_id).text, trail |-> trail])]

\* for expansion in self.graph.neighbors(neighbor): ...
RECURSIVE WalkExpansions(_, _, _, _, _)
WalkExpansions(acc, chunk_id, base_score, neighbor, exps) ==
    IF exps = <<>> \/ acc.error # None THEN acc
    ELSE LET expansion == Head(exps)
         IN  IF \/ IsSeedItself(expansion, chunk_id)
                \/ AlreadyVisited(expansion, acc.visited)
                \/ NotChunkNode(expansion)
             THEN WalkExpansions(acc, chunk_id, base_score, neighbor, Tail(exps))
             ELSE LET emitted == Emit(acc, expansion, Decay(base_score),
                                      <<chunk_id, neighbor, expansion>>)
                      marked == IF emitted.error # None THEN emitted
                                ELSE [emitted EXCEPT
                                         !.visited = MarkVisited(@, expansion)]
                  IN  WalkExpansions(marked, chunk_id, base_score, neighbor, Tail(exps))

\* for neighbor in self.graph.neighbors(chunk_id): ...
RECURSIVE WalkNeighbors(_, _, _, _)
WalkNeighbors(acc, chunk_id, base_score, nbs) ==
    IF nbs = <<>> \/ acc.error # None THEN acc
    ELSE WalkNeighbors(
             IF NotMentions(chunk_id, Head(nbs)) THEN acc
             ELSE WalkExpansions(acc, chunk_id, base_score, Head(nbs),
                      Neighbors(graph, Head(nbs))),
             chunk_id, base_score, Tail(nbs))

\* One iteration of `for chunk_id, base_score in top_chunks`.
ExpandSeed(acc, chunk_id, base_score) ==
    IF ~HasNode(graph, chunk_id) THEN acc
    ELSE LET walked == WalkNeighbors(acc, chunk_id, base_score, Neighbors(graph, chunk_id))
             emitted == IF walked.error # None THEN walked
                        ELSE Emit(walked, chunk_id, base_score, <<chunk_id>>)
         IN  IF emitted.error # None THEN emitted
             ELSE [emitted EXCEPT !.visited = MarkVisited(@, chunk_id)]

RECURSIVE ExpandSeeds(_, _)
ExpandSeeds(acc, top_chunks) ==
    IF top_chunks = <<>> \/ acc.error # None THEN acc
    ELSE ExpandSeeds(ExpandSeed(acc, Head(top_chunks).chunk_id, Head(top_chunks).score),
                     Tail(top_chunks))

\* Mutant of SortResults: the results sorted by a sort that reverses ties.
SortResultsUnstable(results) == UnstableSortDesc(results, <<>>)

\* results.sort(key=lambda r: r.score, reverse=True)
SortResults(results) == StableSortDesc(results, <<>>)

\* The loop of _expand_via_graph: the results in emission order, or the error.
ExpansionPass(top_chunks) ==
    ExpandSeeds([results |-> <<>>, visited |-> NewVisited, error |-> None], top_chunks)

NoCall ==
    [text |-> <<>>, k |-> 0, outcome |-> "none", top_chunks |-> <<>>,
     emitted |-> <<>>, results |-> <<>>]

NoMemo == [call |-> NoCall, between |-> FALSE]

\* GraphRetriever.query(text, k): the record of the call.
QueryCall(text, k) ==
    IF NotFitted(vocabulary)
    THEN [NoCall EXCEPT !.text = text, !.k = k, !.outcome = "RuntimeError"]
    ELSE LET query_vec == Transform(vocabulary, idf, text)
             top_chunks == TopChunks(score_chunks(query_vec), k)
             pass == ExpansionPass(top_chunks)
         IN  IF pass.error # None
             THEN [NoCall EXCEPT !.text = text, !.k = k, !.outcome = pass.error,
                                 !.top_chunks = top_chunks]
             ELSE [text |-> text, k |-> k, outcome |-> "ok",
                   top_chunks |-> top_chunks, emitted |-> pass.results,
                   results |-> SortResults(pass.results)]

(***************************************************************************)
(* pipeline.py: GraphRAGPipeline.from_path, from the chunk list on.        *)
(***************************************************************************)
DefaultMinFreq == 2

\* chunk_index = {chunk.chunk_id: chunk for chunk in artifacts.chunks}
RECURSIVE ChunkIndex(_, _)
ChunkIndex(cs, out) ==
    IF cs = <<>> THEN out
    ELSE ChunkIndex(Tail(cs), DictSet(out, Head(cs).chunk_id, Head(cs)))

\* chunk_embeddings = {chunk.chunk_id: embedder.transform(chunk.text) ...}
RECURSIVE ChunkEmbeddings(_, _, _, _)
ChunkEmbeddings(cs, vocab, idfs, out) ==
    IF cs = <<>> THEN out
    ELSE ChunkEmbeddings(Tail(cs), vocab, idfs,
             DictSet(out, Head(cs).chunk_id, Transform(vocab, idfs, Head(cs).text)))

Texts(cs) == [i \in 1..Len(cs) |-> cs[i].text]

\* The documents behind a chunk list of one-chunk documents.
Documents(cs) == [i \in 1..Len(cs) |-> [doc_id |-> cs[i].doc_id, body |-> cs[i].text]]

\* No call on the embedder yet.
NoEmbedCall ==
    [fits |-> 0, documents |-> <<>>, op |-> "none", text |-> <<>>,
     outcome |-> "none", vector |-> <<>>]

\* No query call in progress.
NoCalls == <<>>

\* No chunk_document call in progress.
NoChunker == [pc |-> "none"]

(***************************************************************************)
(* The inputs the model draws from.                                        *)
(***************************************************************************)
\* "Al x", "Bo y", "Al.Bo", "x y"
TextPool ==
    { <<"A", "l", " ", "x">>,
      <<"B", "o", " ", "y">>,
      <<"A", "l", ".", "B", "o">>,
      <<"x", " ", "y">> }

\* "x", "al y", "z?"
QuestionPool ==
    { <<"x">>,
      <<"a", "l", " ", "y">>,
      <<"z", "?">> }

KValues == (-1)..MaxK

Corpora(pool, n) ==
    UNION {{[i \in 1..m |-> MakeChunk(i, texts[i])] : texts \in [1..m -> pool]} : m \in 0..n}

(***************************************************************************)
(* Spec: a pipeline built by from_path, then queried.                      *)
(***************************************************************************)
Init ==
    /\ chunks \in Corpora(TextPool, MaxChunks)
    /\ min_freq = DefaultMinFreq
    /\ entities = extract_entities(chunks, min_freq)
    /\ graph = build_graph(chunks, entities, extract_relations(chunks, entities))
    /\ chunk_index = ChunkIndex(chunks, <<>>)
    /\ vocabulary = FitVocabulary(Texts(chunks))
    /\ idf = FitIdf(Texts(chunks))
    /\ chunk_embeddings = ChunkEmbeddings(chunks, vocabulary, idf, <<>>)
    /\ last = NoCall
    /\ memo = NoMemo
    /\ stage = "built"
    /\ doc_list = Documents(chunks)
    /\ relation_objs = extract_relations(chunks, entities)
    /\ embed = NoEmbedCall
    /\ calls = NoCalls
    /\ chunker = NoChunker

\* GraphRetriever.query(text, k): the call changes nothing but its own result.
QueryStep(text, k) ==
    /\ stage = "built"
    /\ last' = QueryCall(text, k)
    /\ UNCHANGED <<chunks, min_freq, entities, graph, chunk_index, vocabulary, idf,
                   chunk_embeddings, stage, doc_list, relation_objs, embed, calls,
                   chunker>>

\* GraphRetriever.query(text, k)
Query(text, k) ==
    /\ QueryStep(text, k)
    /\ UNCHANGED memo

Next == \E text \in QuestionPool, k \in KValues : Query(text, k)

Spec == Init /\ [][Next]_vars

(***************************************************************************)
(* SpecRepeat: the same pipeline queried again and again, one earlier call *)
(* being kept in memo (with whether a call with other arguments ran since) *)
(* for comparison with the latest one.                                     *)
(***************************************************************************)
RepeatKValues == {1, 2}

\* GraphRetriever.query(text, k), the observer keeping this call or the kept one.
Requery(text, k) ==
    /\ QueryStep(text, k)
    /\ \/ memo' = [call |-> last', between |-> FALSE]
       \/ /\ memo.call.outcome # "none"
          /\ memo' = [memo EXCEPT !.between =
                         @ \/ memo.call.text # text \/ memo.call.k # k]

NextRepeat == \E text \in QuestionPool, k \in RepeatKValues : Requery(text, k)

SpecRepeat == Init /\ [][NextRepeat]_vars

(***************************************************************************)
(* SpecExtract: extract_entities applied to a chunk list and a min_freq.   *)
(***************************************************************************)
\* "Al x", "Bo.BO", "Al Bo", "BO y", "x"
ExtractPool ==
    { <<"A", "l", " ", "x">>,
      <<"B", "o", ".", "B", "O">>,
      <<"A", "l", " ", "B", "o">>,
      <<"B", "O", " ", "y">>,
      <<"x">> }

MinFreqValues == (-1)..MaxMinFreq

InitExtract ==
    /\ chunks \in Corpora(ExtractPool, MaxExtractChunks)
    /\ min_freq \in MinFreqValues
    /\ entities = <<>>
    /\ graph = EmptyGraph
    /\ chunk_index = <<>>
    /\ vocabulary = <<>>
    /\ idf = <<>>
    /\ chunk_embeddings = <<>>
    /\ last = NoCall
    /\ memo = NoMemo
    /\ stage = "input"
    /\ doc_list = Documents(chunks)
    /\ relation_objs = <<>>
    /\ embed = NoEmbedCall
    /\ calls = NoCalls
    /\ chunker = NoChunker

\* extract_entities(chunks, min_freq)
ExtractEntities ==
    /\ stage = "input"
    /\ entities' = extract_entities(chunks, min_freq)
    /\ stage' = "entities"
    /\ UNCHANGED <<chunks, min_freq, graph, chunk_index, vocabulary, idf,
                   chunk_embeddings, last, memo, doc_list, relation_objs, embed,
                   calls, chunker>>

NextExtract == ExtractEntities

SpecExtract == InitExtract /\ [][NextExtract]_vars

(***************************************************************************)
(* SpecBuild: extract_entities, extract_relations and build_graph applied  *)
(* one after the other to a chunk list; build_graph may be handed fewer    *)
(* entities than the relations were extracted for.                         *)
(***************************************************************************)
MaxBuildChunks == 3

\* "Al.Bo.Al", "Bo.Al", "Al Bo", "Lo.Al Bo"
BuildPool ==
    { <<"A", "l", ".", "B", "o", ".", "A", "l">>,
      <<"B", "o", ".", "A", "l">>,
      <<"A", "l", " ", "B", "o">>,
      <<"L", "o", ".", "A", "l", " ", "B", "o">> }

InitBuild ==
    /\ chunks \in Corpora(BuildPool, MaxBuildChunks)
    /\ min_freq \in MinFreqValues
    /\ entities = <<>>
    /\ graph = EmptyGraph
    /\ chunk_index = <<>>
    /\ vocabulary = <<>>
    /\ idf = <<>>
    /\ chunk_embeddings = <<>>
    /\ last = NoCall
    /\ memo = NoMemo
    /\ stage = "input"
    /\ doc_list = Documents(chunks)
    /\ relation_objs = <<>>
    /\ embed = NoEmbedCall
    /\ calls = NoCalls
    /\ chunker = NoChunker

\* extract_relations(chunks, entities)
ExtractRelations ==
    /\ stage = "entities"
    /\ relation_objs' = extract_relations(chunks, entities)
    /\ stage' = "relations"
    /\ UNCHANGED <<chunks, min_freq, entities, graph, chunk_index, vocabulary, idf,
                   chunk_embeddings, last, memo, doc_list, embed, calls, chunker>>

\* build_graph(chunks, kept, relations), kept being the entities handed over.
BuildGraph(kept) ==
    /\ stage = "relations"
    /\ entities' = kept
    /\ graph' = build_graph(chunks, kept, relation_objs)
    /\ stage' = "graph"
    /\ UNCHANGED <<chunks, min_freq, chunk_index, vocabulary, idf, chunk_embeddings,
                   last, memo, doc_list, relation_objs, embed, calls, chunker>>

NextBuild ==
    \/ ExtractEntities
    \/ ExtractRelations
    \/ \E mf \in MinFreqValues : BuildGraph(extract_entities(chunks, mf))

SpecBuild == InitBuild /\ [][NextBuild]_vars

(***************************************************************************)
(* SpecEmbed: a new BagOfWordsEmbedder, held by a retriever over an empty  *)
(* graph, on which fit, transform and query are called in any order.       *)
(***************************************************************************)
MaxFits == 2
MaxFitDocs == 2

\* "x y", "Al x", "Bo"
FitPool ==
    { <<"x", " ", "y">>,
      <<"A", "l", " ", "x">>,
      <<"B", "o">> }

FitCorpora ==
    UNION {[1..m -> FitPool] : m \in 0..MaxFitDocs}

InitEmbed ==
    /\ chunks = <<>>
    /\ min_freq = DefaultMinFreq
    /\ entities = <<>>
    /\ graph = EmptyGraph
    /\ chunk_index = <<>>
    /\ vocabulary = <<>>
    /\ idf = <<>>
    /\ chunk_embeddings = <<>>
    /\ last = NoCall
    /\ memo = NoMemo
    /\ stage = "embedder"
    /\ doc_list = <<>>
    /\ relation_objs = <<>>
    /\ embed = NoEmbedCall
    /\ calls = NoCalls
    /\ chunker = NoChunker

\* BagOfWordsEmbedder.fit(documents)
Fit(documents) ==
    /\ stage = "embedder"
    /\ embed.fits < MaxFits
    /\ vocabulary' = FitVocabulary(documents)
    /\ idf' = FitIdf(documents)
    /\ embed' = [fits |-> embed.fits + 1, documents |-> documents, op |-> "fit",
                 text |-> <<>>, outcome |-> "ok", vector |-> <<>>]
    /\ UNCHANGED <<chunks, min_freq, entities, graph, chunk_index, chunk_embeddings,
                   last, memo, stage, doc_list, relation_objs, calls, chunker>>

\* BagOfWordsEmbedder.transform(text): it assigns no attribute of the embedder.
TransformCall(text) ==
    /\ stage = "embedder"
    /\ embed' = IF NotFitted(vocabulary)
                THEN [embed EXCEPT !.op = "transform", !.text = text,
                                   !.outcome = "RuntimeError", !.vector = <<>>]
                ELSE [embed EXCEPT !.op = "transform", !.text = text,
                                   !.outcome = "ok",
                                   !.vector = Transform(vocabulary, idf, text)]
    /\ UNCHANGED <<chunks, min_freq, entities, graph, chunk_index, vocabulary, idf,
                   chunk_embeddings, last, memo, stage, doc_list, relation_objs,
                   calls, chunker>>

\* GraphRetriever.query(text, k) on the retriever holding the embedder.
EmbedQuery(text, k) ==
    /\ stage = "embedder"
    /\ last' = QueryCall(text, k)
    /\ UNCHANGED <<chunks, min_freq, entities, graph, chunk_index, vocabulary, idf,
                   chunk_embeddings, memo, stage, doc_list, relation_objs, embed,
                   calls, chunker>>

NextEmbed ==
    \/ \E documents \in FitCorpora : Fit(documents)
    \/ \E text \in QuestionPool : TransformCall(text)
    \/ \E text \in QuestionPool, k \in RepeatKValues : EmbedQuery(text, k)

SpecEmbed == InitEmbed /\ [][NextEmbed]_vars

(***************************************************************************)
(* SpecScenario: pipelines built by from_path from the two sentences of    *)
(* the end-to-end scenario (each a document of one chunk), then queried.   *)
(***************************************************************************)
MaxScenarioChunks == 2

\* "Alice met Bob in Paris."
AliceMetBob ==
    <<"A", "l", "i", "c", "e", " ", "m", "e", "t", " ", "B", "o", "b", " ",
      "i", "n", " ", "P", "a", "r", "i", "s", ".">>

\* "Bob travels to Paris often."
BobTravels ==
    <<"B", "o", "b", " ", "t", "r", "a", "v", "e", "l", "s", " ", "t", "o",
      " ", "P", "a", "r", "i", "s", " ", "o", "f", "t", "e", "n", ".">>

\* "Where did Bob go?"
WhereDidBobGo ==
    <<"W", "h", "e", "r", "e", " ", "d", "i", "d", " ", "B", "o", "b", " ",
      "g", "o", "?">>

ScenarioPool == {AliceMetBob, BobTravels}

\* "Where did Bob go?", "Paris?", "alice"
ScenarioQuestions ==
    { WhereDidBobGo,
      <<"P", "a", "r", "i", "s", "?">>,
      <<"a", "l", "i", "c", "e">> }

InitScenario ==
    /\ chunks \in Corpora(ScenarioPool, MaxScenarioChunks)
    /\ min_freq = DefaultMinFreq
    /\ entities = extract_entities(chunks, min_freq)
    /\ relation_objs = extract_relations(chunks, entities)
    /\ graph = build_graph(chunks, entities, relation_objs)
    /\ chunk_index = ChunkIndex(chunks, <<>>)
    /\ vocabulary = FitVocabulary(Texts(chunks))
    /\ idf = FitIdf(Texts(chunks))
    /\ chunk_embeddings = ChunkEmbeddings(chunks, vocabulary, idf, <<>>)
    /\ last = NoCall
    /\ memo = NoMemo
    /\ stage = "built"
    /\ doc_list = Documents(chunks)
    /\ embed = NoEmbedCall
    /\ calls = NoCalls
    /\ chunker = NoChunker

NextScenario == \E text \in ScenarioQuestions, k \in KValues : Query(text, k)

SpecScenario == InitScenario /\ [][NextScenario]_vars

(***************************************************************************)
(* SpecChunk: one call of chunk_document, an action per pass of its loop.  *)
(* The call runs in one thread that nothing suspends, so a pass that is    *)
(* enabled is taken; a call whose window never reaches the end of the      *)
(* token list is cut off after MaxIterations passes.                       *)
(***************************************************************************)
MaxBodyTokens == 5
MaxWindow == 3
MaxIterations == 7

Letters == <<"a", "b", "c", "d", "e", "f", "g", "h", "i">>

\* A body of n one-letter tokens, with a leading blank and two blanks
\* behind every token.
RECURSIVE BodyOf(_)
BodyOf(n) ==
    IF n = 0 THEN <<" ">> ELSE BodyOf(n - 1) \o <<Letters[n], " ", " ">>

ChunkInputs == {[doc_id |-> DocId(1), body |-> BodyOf(n)] : n \in 0..MaxBodyTokens}

InitChunk ==
    /\ chunks = <<>>
    /\ min_freq = DefaultMinFreq
    /\ entities = <<>>
    /\ graph = EmptyGraph
    /\ chunk_index = <<>>
    /\ vocabulary = <<>>
    /\ idf = <<>>
    /\ chunk_embeddings = <<>>
    /\ last = NoCall
    /\ memo = NoMemo
    /\ stage = "chunker"
    /\ doc_list = <<>>
    /\ relation_objs = <<>>
    /\ embed = NoEmbedCall
    /\ calls = NoCalls
    /\ chunker = NoChunker

\* chunk_document(document, max_tokens, overlap), up to the loop.
ChunkDocumentCall(document, max_tokens, overlap) ==
    /\ stage = "chunker"
    /\ chunker.pc = "none"
    /\ doc_list' = <<document>>
    /\ chunker' = StartChunker(document, max_tokens, overlap)
    /\ UNCHANGED <<chunks, min_freq, entities, graph, chunk_index, vocabulary, idf,
                   chunk_embeddings, last, memo, stage, relation_objs, embed, calls>>

\* One pass of the loop; the list is handed to the caller at the return.
ChunkLoop ==
    /\ stage = "chunker"
    /\ chunker.pc = "loop"
    /\ chunker.idx < MaxIterations
    /\ chunker' = ChunkerStep(chunker)
    /\ chunks' = IF chunker'.pc = "done" THEN chunker'.chunks ELSE chunks
    /\ UNCHANGED <<min_freq, entities, graph, chunk_index, vocabulary, idf,
                   chunk_embeddings, last, memo, stage, doc_list, relation_objs,
                   embed, calls>>

NextChunk ==
    \/ \E document \in ChunkInputs, max_tokens \in 1..MaxWindow, overlap \in 0..MaxWindow :
           ChunkDocumentCall(document, max_tokens, overlap)
    \/ ChunkLoop

SpecChunk == InitChunk /\ [][NextChunk]_vars /\ WF_vars(NextChunk)

(***************************************************************************)
(* SpecPipeline: documents with distinct ids, GraphRAGPipeline.from_path   *)
(* over them (chunk_corpus with the default window included), then         *)
(* queries.                                                                *)
(***************************************************************************)
MaxDocs == 2

\* n tokens "." separated by blanks, a blank behind the last.
Dots(n) == [i \in 1..(2 * n) |-> IF i % 2 = 1 THEN "." ELSE " "]

\* 121 whitespace tokens, "Al" within the last 20 of the first 120.
LongBody == Dots(110) \o <<"A", "l", " ">> \o Dots(10)

\* LongBody, "Al x", "?", ""
BodyPool == { LongBody, <<"A", "l", " ", "x">>, <<"?">>, <<>> }

\* "d1", "d1::chunk-0", "d2": document ids in the order of their paths.
DocIdPool == <<DocId(1), ChunkId(DocId(1), 0), DocId(2)>>

\* load_documents: one document per path, the paths sorted.
DocumentLists ==
    UNION {{[i \in 1..m |-> [doc_id |-> DocIdPool[ids[i]], body |-> bodies[i]]] :
               ids \in {f \in [1..m -> 1..Len(DocIdPool)] :
                           \A i \in 1..m, j \in 1..m : i < j => f[i] < f[j]},
               bodies \in [1..m -> BodyPool]} : m \in 0..MaxDocs}

InitPipeline ==
    /\ chunks = <<>>
    /\ min_freq = DefaultMinFreq
    /\ entities = <<>>
    /\ graph = EmptyGraph
    /\ chunk_index = <<>>
    /\ vocabulary = <<>>
    /\ idf = <<>>
    /\ chunk_embeddings = <<>>
    /\ last = NoCall
    /\ memo = NoMemo
    /\ stage = "documents"
    /\ doc_list \in DocumentLists
    /\ relation_objs = <<>>
    /\ embed = NoEmbedCall
    /\ calls = NoCalls
    /\ chunker = NoChunker

\* GraphRAGPipeline.from_path, from the loaded documents on.  The transform
\* of the first chunk raises when fit found no token in any chunk: there is
\* no pipeline then.
FromPath ==
    /\ stage = "documents"
    /\ LET cs == chunk_corpus(doc_list)
           ents == extract_entities(cs, DefaultMinFreq)
           rels == extract_relations(cs, ents)
           vocab == FitVocabulary(Texts(cs))
           idfs == FitIdf(Texts(cs))
       IN  IF cs # <<>> /\ NotFitted(vocab)
           THEN /\ stage' = "failed"
                /\ UNCHANGED <<chunks, entities, relation_objs, graph, vocabulary, idf,
                               chunk_embeddings, chunk_index>>
           ELSE /\ stage' = "built"
                /\ chunks' = cs
                /\ entities' = ents
                /\ relation_objs' = rels
                /\ graph' = build_graph(cs, ents, rels)
                /\ vocabulary' = vocab
                /\ idf' = idfs
                /\ chunk_embeddings' = ChunkEmbeddings(cs, vocab, idfs, <<>>)
                /\ chunk_index' = ChunkIndex(cs, <<>>)
    /\ UNCHANGED <<min_freq, last, memo, doc_list, embed, calls, chunker>>

NextPipeline ==
    \/ FromPath
    \/ \E text \in QuestionPool, k \in KValues : Query(text, k)

SpecPipeline == InitPipeline /\ [][NextPipeline]_vars

(***************************************************************************)
(* SpecInterleave: two callers query one retriever, each call advancing by *)
(* one pass of the loop over its seeds at a time, so that the calls of the *)
(* two callers interleave or follow one another.  calls[p] holds the       *)
(* locals of the call of caller p; overlapped records that the other       *)
(* caller had a call in progress during this one.                          *)
(***************************************************************************)
MaxInterleaveChunks == 2

Callers == {1, 2}

\* "Al x", "Al.Bo", "Bo y"
InterleavePool ==
    { <<"A", "l", " ", "x">>,
      <<"A", "l", ".", "B", "o">>,
      <<"B", "o", " ", "y">> }

\* "x", "al y"
InterleaveQuestions == { <<"x">>, <<"a", "l", " ", "y">> }

IdleCall ==
    [pc |-> "idle", text |-> <<>>, k |-> 0, top_chunks |-> <<>>, results |-> <<>>,
     visited |-> {}, outcome |-> "none", overlapped |-> FALSE]

InProgress(p) == calls[p].pc = "expanding"

InitInterleave ==
    /\ chunks \in Corpora(InterleavePool, MaxInterleaveChunks)
    /\ min_freq = DefaultMinFreq
    /\ entities = extract_entities(chunks, min_freq)
    /\ relation_objs = extract_relations(chunks, entities)
    /\ graph = build_graph(chunks, entities, relation_objs)
    /\ chunk_index = ChunkIndex(chunks, <<>>)
    /\ vocabulary = FitVocabulary(Texts(chunks))
    /\ idf = FitIdf(Texts(chunks))
    /\ chunk_embeddings = ChunkEmbeddings(chunks, vocabulary, idf, <<>>)
    /\ last = NoCall
    /\ memo = NoMemo
    /\ stage = "serving"
    /\ doc_list = Documents(chunks)
    /\ embed = NoEmbedCall
    /\ calls = [p \in Callers |-> IdleCall]
    /\ chunker = NoChunker

\* The other callers' calls in progress are marked as overlapped.
MarkOverlap(p, started) ==
    [q \in Callers |->
        IF q = p THEN started
        ELSE IF InProgress(q) THEN [calls[q] EXCEPT !.overlapped = TRUE]
        ELSE calls[q]]

\* query(text, k) up to the loop of _expand_via_graph: query_vec,
\* scored_chunks, top_chunks, results = [] and visited = set().
StartQuery(p, text, k) ==
    /\ stage = "serving"
    /\ calls[p].pc \in {"idle", "done"}
    /\ calls' = MarkOverlap(p,
           IF NotFitted(vocabulary)
           THEN [IdleCall EXCEPT !.pc = "done", !.text = text, !.k = k,
                                 !.outcome = "RuntimeError"]
           ELSE [pc |-> "expanding", text |-> text, k |-> k,
                 top_chunks |-> TopChunks(score_chunks(Transform(vocabulary, idf, text)), k),
                 results |-> <<>>, visited |-> NewVisited, outcome |-> "none",
                 overlapped |-> \E q \in Callers \ {p} : InProgress(q)])
    /\ UNCHANGED <<chunks, min_freq, entities, graph, chunk_index, vocabulary, idf,
                   chunk_embeddings, last, memo, stage, doc_list, relation_objs,
                   embed, chunker>>

\* One pass of `for chunk_id, base_score in top_chunks`.
ExpandStep(p) ==
    /\ stage = "serving"
    /\ InProgress(p)
    /\ calls[p].top_chunks # <<>>
    /\ LET seed == Head(calls[p].top_chunks)
           acc == ExpandSeed([results |-> calls[p].results,
                              visited |-> calls[p].visited, error |-> None],
                             seed.chunk_id, seed.score)
       IN  calls' = [calls EXCEPT ![p] =
               IF acc.error # None
               THEN [@ EXCEPT !.pc = "done", !.outcome = acc.error, !.results = <<>>]
               ELSE [@ EXCEPT !.top_chunks = Tail(@), !.results = acc.results,
                              !.visited = acc.visited]]
    /\ UNCHANGED <<chunks, min_freq, entities, graph, chunk_index, vocabulary, idf,
                   chunk_embeddings, last, memo, stage, doc_list, relation_objs,
                   embed, chunker>>

\* results.sort(...); return results
FinishQuery(p) ==
    /\ stage = "serving"
    /\ InProgress(p)
    /\ calls[p].top_chunks = <<>>
    /\ calls' = [calls EXCEPT ![p] =
           [@ EXCEPT !.pc = "done", !.outcome = "ok",
                     !.results = SortResults(calls[p].results)]]
    /\ UNCHANGED <<chunks, min_freq, entities, graph, chunk_index, vocabulary, idf,
                   chunk_embeddings, last, memo, stage, doc_list, relation_objs,
                   embed, chunker>>

NextInterleave ==
    \E p \in Callers :
        \/ \E text \in InterleaveQuestions, k \in RepeatKValues : StartQuery(p, text, k)
        \/ ExpandStep(p)
        \/ FinishQuery(p)

SpecInterleave == InitInterleave /\ [][NextInterleave]_vars

(***************************************************************************)
(* Observations of the latest query call.                                  *)
(***************************************************************************)
Called == last.outcome # "none"

Returned == last.outcome = "ok"

IsSeedResult(r) == Len(r.trail) = 1

IsExpansionResult(r) == Len(r.trail) = 3

SeedIds == [i \in 1..Len(last.top_chunks) |-> last.top_chunks[i].chunk_id]

NodeType(n) == IF HasNode(graph, n) THEN Get(DictGet(graph.attrs, n), "type") ELSE None

HasMentionsEdge(u, v) ==
    /\ {u, v} \in DictKeys(graph.edges)
    /\ Get(EdgeData(graph, u, v), "type") = "mentions"

\* The 2-hop walk chunk -> entity -> chunk from seed s arrives at c.
WalkReaches(s, c) ==
    /\ HasNode(graph, s)
    /\ c # s
    /\ \E e \in Range(Neighbors(graph, s)) :
           HasMentionsEdge(s, e) /\ c \in Range(Neighbors(graph, e))

(***************************************************************************)
(* C1: a chunk emitted as a seed result (trail = [chunk_id]) is never also *)
(* emitted as an expansion result (trail of length 3 ending in it).        *)
(***************************************************************************)
C1_SeedNeverExpansion ==
    Returned =>
        \A i, j \in 1..Len(last.results) :
            ~ /\ IsSeedResult(last.results[i])
              /\ IsExpansionResult(last.results[j])
              /\ last.results[j].trail[3] = last.results[i].trail[1]

(***************************************************************************)
(* C2: no chunk_id occurs in more than one expansion result, and the       *)
(* expansion result kept for a chunk carries the trail of its first        *)
(* discovery: no seed ranked before the trail's seed reaches the chunk (or *)
(* is the chunk), and no mentions-neighbour of the seed that comes before  *)
(* the trail's entity is adjacent to the chunk.                            *)
(***************************************************************************)
C2_FirstDiscovery ==
    Returned =>
        /\ \A i, j \in 1..Len(last.results) :
               (/\ i # j
                /\ IsExpansionResult(last.results[i])
                /\ IsExpansionResult(last.results[j]))
               => last.results[i].chunk_id # last.results[j].chunk_id
        /\ \A i \in 1..Len(last.results) :
               IsExpansionResult(last.results[i]) =>
                   LET s == last.results[i].trail[1]
                       e == last.results[i].trail[2]
                       c == last.results[i].trail[3]
                       rank == IndexOf(SeedIds, s)
                       nbs == Neighbors(graph, s)
                   IN  /\ rank > 0
                       /\ c = last.results[i].chunk_id
                       /\ WalkReaches(s, c)
                       /\ \A r \in 1..(rank - 1) :
                              SeedIds[r] # c /\ ~WalkReaches(SeedIds[r], c)
                       /\ \A n \in 1..(IndexOf(nbs, e) - 1) :
                              HasMentionsEdge(s, nbs[n])
                                  => c \notin Range(Neighbors(graph, nbs[n]))

\* An expansion result whose chunk is also reached from a later seed and
\* through a second entity of its own seed.
C2_Witness ==
    /\ Returned
    /\ last.k >= 1
    /\ \E i \in 1..Len(last.results) :
           /\ IsExpansionResult(last.results[i])
           /\ LET s == last.results[i].trail[1]
                  e == last.results[i].trail[2]
                  c == last.results[i].trail[3]
              IN  /\ \E r \in 1..Len(SeedIds) :
                         /\ r > IndexOf(SeedIds, s)
                         /\ SeedIds[r] # c
                         /\ WalkReaches(SeedIds[r], c)
                  /\ \E e2 \in Range(Neighbors(graph, s)) :
                         /\ e2 # e
                         /\ HasMentionsEdge(s, e2)
                         /\ c \in Range(Neighbors(graph, e2))

(***************************************************************************)
(* C3: query with k <= 0 does not raise and returns an empty sequence      *)
(* (stated here for a fitted embedder; the unfitted case is C4's).         *)
(***************************************************************************)
C3_NonPositiveKEmpty ==
    (Called /\ last.k <= 0 /\ ~NotFitted(vocabulary)) =>
        (Returned /\ last.results = <<>>)

(***************************************************************************)
(* C4: on a pipeline built from an empty corpus, query returns an empty    *)
(* sequence and signals no error.                                          *)
(***************************************************************************)
C4_EmptyCorpusEmptyResult ==
    (Called /\ chunks = <<>>) => (Returned /\ last.results = <<>>)

(***************************************************************************)
(* C5: two query calls with the same question and k on the same retriever  *)
(* return the same ordered results, whatever was asked in between.         *)
(***************************************************************************)
C5_Deterministic ==
    (/\ memo.call.outcome # "none"
     /\ memo.call.text = last.text
     /\ memo.call.k = last.k)
    => (memo.call.outcome = last.outcome /\ memo.call.results = last.results)

\* The kept call is repeated after a call with other arguments, and returns
\* seeds together with expansions.
C5_Witness ==
    /\ memo.call.outcome = "ok"
    /\ memo.between
    /\ memo.call.text = last.text
    /\ memo.call.k = last.k
    /\ \E i \in 1..Len(last.results) : IsExpansionResult(last.results[i])

(***************************************************************************)
(* C6: each expansion result [s, e, c] scores 0.8 times the seed result    *)
(* for s, which is in the list; scores are non-negative, so the expansion  *)
(* scores no more than its seed.                                           *)
(***************************************************************************)
C6_DecayedFromSeed ==
    Returned =>
        \A i \in 1..Len(last.results) :
            /\ last.results[i].score >= 0
            /\ IsExpansionResult(last.results[i]) =>
                   \E j \in 1..Len(last.results) :
                       /\ last.results[j].trail = <<last.results[i].trail[1]>>
                       /\ last.results[j].chunk_id = last.results[i].trail[1]
                       /\ 5 * last.results[i].score = 4 * last.results[j].score
                       /\ last.results[i].score <= last.results[j].score

\* An expansion of a seed with a positive score.
C6_Witness ==
    /\ Returned
    /\ last.k >= 1
    /\ \E i, j \in 1..Len(last.results) :
           /\ IsExpansionResult(last.results[i])
           /\ last.results[j].trail = <<last.results[i].trail[1]>>
           /\ last.results[j].score > 0
           /\ last.results[i].score < last.results[j].score

(***************************************************************************)
(* C7: every trail is [chunk_id] for a top-k seed, or [s, e, c] with s a   *)
(* top-k seed, e an entity node joined to s by a mentions edge, c a chunk  *)
(* node adjacent to e, c # s and c the result's chunk_id.                  *)
(***************************************************************************)
C7_TrailShape ==
    Returned =>
        \A i \in 1..Len(last.results) :
            LET r == last.results[i]
            IN  \/ /\ r.trail = <<r.chunk_id>>
                   /\ r.chunk_id \in Range(SeedIds)
                \/ /\ Len(r.trail) = 3
                   /\ r.trail[1] \in Range(SeedIds)
                   /\ NodeType(r.trail[2]) = "entity"
                   /\ HasMentionsEdge(r.trail[1], r.trail[2])
                   /\ NodeType(r.trail[3]) = "chunk"
                   /\ r.trail[3] \in Range(Neighbors(graph, r.trail[2]))
                   /\ r.trail[3] # r.trail[1]
                   /\ r.trail[3] = r.chunk_id

\* Both shapes in one list, the walk passing an entity that also has an
\* entity neighbour (a co_occurs edge the walk must not follow).
C7_Witness ==
    /\ Returned
    /\ last.k >= 1
    /\ \E i, j \in 1..Len(last.results) :
           /\ IsSeedResult(last.results[i])
           /\ IsExpansionResult(last.results[j])
           /\ \E n \in Range(Neighbors(graph, last.results[j].trail[2])) :
                  NodeType(n) = "entity"

(***************************************************************************)
(* C8: for k >= 1 the seeds are the first min(k, number of chunks) chunks  *)
(* by descending cosine score, equal scores in chunk-iteration order, and  *)
(* the seed results are emitted in that order.                             *)
(***************************************************************************)
ChunkPos(chunk_id) == IndexOf([i \in 1..Len(chunk_embeddings) |-> chunk_embeddings[i].key], chunk_id)

ChunkScore(text, chunk_id) ==
    cosine_similarity(Transform(vocabulary, idf, text), DictGet(chunk_embeddings, chunk_id))

\* Chunk a ranks before chunk b for the question.
RanksBefore(text, a, b) ==
    \/ ChunkScore(text, a) > ChunkScore(text, b)
    \/ ChunkScore(text, a) = ChunkScore(text, b) /\ ChunkPos(a) < ChunkPos(b)

RECURSIVE SeedTrailIds(_)
SeedTrailIds(results) ==
    IF results = <<>> THEN <<>>
    ELSE (IF IsSeedResult(Head(results)) THEN <<Head(results).chunk_id>> ELSE <<>>)
         \o SeedTrailIds(Tail(results))

C8_SeedsAreTopK ==
    (Returned /\ last.k >= 1) =>
        /\ Len(SeedIds) = Min(last.k, Len(chunk_embeddings))
        /\ \A i \in 1..Len(SeedIds) :
               /\ SeedIds[i] \in DictKeys(chunk_embeddings)
               /\ last.top_chunks[i].score = ChunkScore(last.text, SeedIds[i])
        /\ \A i, j \in 1..Len(SeedIds) :
               i < j => RanksBefore(last.text, SeedIds[i], SeedIds[j])
        /\ \A i \in 1..Len(SeedIds) :
               \A c \in DictKeys(chunk_embeddings) \ Range(SeedIds) :
                   RanksBefore(last.text, SeedIds[i], c)
        /\ SeedTrailIds(last.emitted) = SeedIds

\* Fewer seeds than chunks, two seeds tied, and the best chunk left out tied
\* with the last seed: only the order of iteration decides.
C8_Witness ==
    /\ Returned
    /\ last.k >= 2
    /\ Len(SeedIds) < Len(chunk_embeddings)
    /\ last.top_chunks[1].score = last.top_chunks[2].score
    /\ \E c \in DictKeys(chunk_embeddings) \ Range(SeedIds) :
           ChunkScore(last.text, c) = last.top_chunks[Len(SeedIds)].score

(***************************************************************************)
(* C9: the returned list holds exactly the results the expansion pass      *)
(* emitted (a seed result for every seed, nothing cut at k), in order of   *)
(* non-increasing score, equal scores in emission order.                   *)
(***************************************************************************)
C9_AllResultsSorted ==
    Returned =>
        /\ Len(last.results) = Len(last.emitted)
        /\ Range(last.results) = Range(last.emitted)
        /\ \A i \in 1..Len(SeedIds) :
               \E j \in 1..Len(last.results) :
                   /\ last.results[j].trail = <<SeedIds[i]>>
                   /\ last.results[j].score = last.top_chunks[i].score
        /\ \A i, j \in 1..Len(last.results) :
               i < j =>
                   \/ last.results[i].score > last.results[j].score
                   \/ /\ last.results[i].score = last.results[j].score
                      /\ IndexOf(last.emitted, last.results[i])
                             < IndexOf(last.emitted, last.results[j])

\* More results than k, one moved forward by the sort, two of equal score.
C9_Witness ==
    /\ Returned
    /\ last.k >= 1
    /\ Len(last.results) > last.k
    /\ last.results # last.emitted
    /\ \E i \in 1..(Len(last.results) - 1) :
           last.results[i].score = last.results[i + 1].score

(***************************************************************************)
(* C10: extract_entities returns an entity for a matched label L exactly   *)
(* when L's total match count is at least min_freq, with label L, that     *)
(* count as frequency, and the entity_id derived from L.                   *)
(***************************************************************************)
MatchedLabels == UNION {Range(FindAll(chunks[i].text)) : i \in 1..Len(chunks)}

TotalCount(label) ==
    SumSeq([i \in 1..Len(chunks) |-> Count(FindAll(chunks[i].text), label)])

C10_EntityPerFrequentLabel ==
    stage = "entities" =>
        /\ \A label \in MatchedLabels :
               (TotalCount(label) >= min_freq) <=>
                   \E i \in 1..Len(entities) :
                       /\ entities[i].value.label = label
                       /\ entities[i].value.frequency = TotalCount(label)
                       /\ entities[i].value.entity_id = EntityId(label)
                       /\ entities[i].key = EntityId(label)
        /\ \A i \in 1..Len(entities) : entities[i].value.label \in MatchedLabels

(***************************************************************************)
(* C11: extract_relations emits exactly one Relation for each unordered    *)
(* pair of distinct entities whose labels are both matched by the entity   *)
(* pattern in some common chunk, with head_id < tail_id and the number of  *)
(* such chunks as weight, and no Relation for any other pair.              *)
(***************************************************************************)
LabelOf(entity_id) == DictGet(entities, entity_id).label

\* The chunk mentions the entity: the pattern matches its label there.
MentionedIn(entity_id, chunk) == LabelOf(entity_id) \in Range(FindAll(chunk.text))

SharedChunks(a, b) ==
    {i \in 1..Len(chunks) : MentionedIn(a, chunks[i]) /\ MentionedIn(b, chunks[i])}

RelationsOf(a, b) ==
    {i \in 1..Len(relation_objs) :
        {relation_objs[i].head_id, relation_objs[i].tail_id} = {a, b}}

C11_OneRelationPerSharedPair ==
    stage = "relations" =>
        /\ \A a, b \in DictKeys(entities) :
               a # b =>
                   IF SharedChunks(a, b) = {} THEN RelationsOf(a, b) = {}
                   ELSE /\ Cardinality(RelationsOf(a, b)) = 1
                        /\ \A i \in RelationsOf(a, b) :
                               /\ StrLess(relation_objs[i].head_id,
                                          relation_objs[i].tail_id)
                               /\ relation_objs[i].weight
                                      = Cardinality(SharedChunks(a, b))
        /\ \A i \in 1..Len(relation_objs) :
               /\ relation_objs[i].head_id \in DictKeys(entities)
               /\ relation_objs[i].tail_id \in DictKeys(entities)
               /\ relation_objs[i].head_id # relation_objs[i].tail_id

\* A pair sharing two chunks, one of which repeats a label of the pair, next
\* to an entity that shares no chunk with any other.
C11_Witness ==
    /\ stage = "relations"
    /\ \E i \in 1..Len(relation_objs) :
           /\ relation_objs[i].weight >= 2
           /\ \E c \in SharedChunks(relation_objs[i].head_id, relation_objs[i].tail_id) :
                  Count(FindAll(chunks[c].text), LabelOf(relation_objs[i].head_id)) >= 2
    /\ \E a \in DictKeys(entities) :
           \A b \in DictKeys(entities) \ {a} : SharedChunks(a, b) = {}

(***************************************************************************)
(* C12: after build_graph the graph has one node per chunk and one per     *)
(* entity handed over and no other node, and every node is tagged chunk or *)
(* entity (no edge brought a node of its own).                             *)
(***************************************************************************)
ChunkIds == {chunks[i].chunk_id : i \in 1..Len(chunks)}

DroppedRelations ==
    {i \in 1..Len(relation_objs) :
        \/ relation_objs[i].head_id \notin DictKeys(entities)
        \/ relation_objs[i].tail_id \notin DictKeys(entities)}

C12_NodesAreChunksAndEntities ==
    stage = "graph" =>
        /\ Len(graph.nodes) = Len(chunks) + Len(entities)
        /\ Cardinality(Range(graph.nodes)) = Len(graph.nodes)
        /\ Range(graph.nodes) = ChunkIds \cup DictKeys(entities)
        /\ \A n \in ChunkIds : NodeType(n) = "chunk"
        /\ \A n \in DictKeys(entities) : NodeType(n) = "entity"

\* A graph with mentions edges, built with a relation whose endpoint was not
\* handed over as an entity.
C12_Witness ==
    /\ stage = "graph"
    /\ DroppedRelations # {}
    /\ entities # <<>>
    /\ graph.edges # <<>>

(***************************************************************************)
(* C13: in the graph build_graph returns, the mentions edges are exactly   *)
(* the pairs of a chunk and an entity whose label is a substring of the    *)
(* chunk's text; each co_occurs edge joins the two entity nodes of an      *)
(* input relation and carries its weight; a relation with an endpoint that *)
(* is no node leaves no edge and no node; no node pair has two edges.      *)
(***************************************************************************)
IsSubstring(needle, text) ==
    \E i \in 1..(Len(text) + 1) : \E j \in (i - 1)..Len(text) :
        SubSeq(text, i, j) = needle

EdgeType(key) == Get(DictGet(graph.edges, key), "type")

C13_EdgesFollowInputs ==
    stage = "graph" =>
        /\ \A e \in 1..Len(graph.edges) :
               LET key == graph.edges[e].key
                   data == graph.edges[e].value
               IN  \/ /\ Get(data, "type") = "mentions"
                      /\ \E c \in 1..Len(chunks) : \E x \in DictKeys(entities) :
                             /\ key = {chunks[c].chunk_id, x}
                             /\ NodeType(chunks[c].chunk_id) = "chunk"
                             /\ NodeType(x) = "entity"
                             /\ IsSubstring(LabelOf(x), chunks[c].text)
                   \/ /\ Get(data, "type") = "co_occurs"
                      /\ \E r \in 1..Len(relation_objs) :
                             /\ key = {relation_objs[r].head_id, relation_objs[r].tail_id}
                             /\ NodeType(relation_objs[r].head_id) = "entity"
                             /\ NodeType(relation_objs[r].tail_id) = "entity"
                             /\ relation_objs[r].head_id # relation_objs[r].tail_id
                             /\ Get(data, "weight") = relation_objs[r].weight
        /\ \A c \in 1..Len(chunks) : \A x \in DictKeys(entities) :
               IsSubstring(LabelOf(x), chunks[c].text) =>
                   /\ {chunks[c].chunk_id, x} \in DictKeys(graph.edges)
                   /\ EdgeType({chunks[c].chunk_id, x}) = "mentions"
        /\ \A r \in 1..Len(relation_objs) :
               IF r \in DroppedRelations
               THEN /\ {relation_objs[r].head_id, relation_objs[r].tail_id}
                           \notin DictKeys(graph.edges)
                    /\ \A n \in {relation_objs[r].head_id, relation_objs[r].tail_id} :
                           n \notin DictKeys(entities) => ~HasNode(graph, n)
               ELSE /\ {relation_objs[r].head_id, relation_objs[r].tail_id}
                           \in DictKeys(graph.edges)
                    /\ EdgeType({relation_objs[r].head_id, relation_objs[r].tail_id})
                           = "co_occurs"
        /\ Cardinality(DictKeys(graph.edges)) = Len(graph.edges)
        /\ \A n \in Range(graph.nodes) :
               LET nbs == Neighbors(graph, n)
               IN  /\ Cardinality(Range(nbs)) = Len(nbs)
                   /\ \A m \in Range(graph.nodes) :
                          m \in Range(nbs) <=> {n, m} \in DictKeys(graph.edges)

\* A mentions edge to a chunk where the pattern does not match the entity's
\* label on its own, a co_occurs edge, and a dropped relation, in one graph.
C13_Witness ==
    /\ stage = "graph"
    /\ DroppedRelations # {}
    /\ \E e \in 1..Len(graph.edges) : Get(graph.edges[e].value, "type") = "co_occurs"
    /\ \E c \in 1..Len(chunks) : \E x \in DictKeys(entities) :
           /\ {chunks[c].chunk_id, x} \in DictKeys(graph.edges)
           /\ ~MentionedIn(x, chunks[c])

(***************************************************************************)
(* C14: on an embedder on which fit was never called, transform raises the *)
(* "not fitted" error and returns no vector, vocabulary and idf stay as    *)
(* __init__ left them, and a query through the retriever holding the       *)
(* embedder ends with the same error.                                      *)
(***************************************************************************)
NeverFitted == embed.fits = 0

C14_NotFittedError ==
    /\ (NeverFitted /\ embed.op = "transform") =>
           /\ embed.outcome = "RuntimeError"
           /\ embed.vector = <<>>
    /\ NeverFitted => (vocabulary = <<>> /\ idf = <<>>)
    /\ (NeverFitted /\ Called) => (last.outcome = "RuntimeError" /\ last.results = <<>>)

\* transform and query have both been called before any fit.
C14_Witness ==
    /\ NeverFitted
    /\ embed.op = "transform"
    /\ embed.outcome = "RuntimeError"
    /\ last.outcome = "RuntimeError"

(***************************************************************************)
(* C15: whatever fit and transform calls were made, idf is as long as the  *)
(* vocabulary, the vocabulary holds its tokens in strictly ascending order *)
(* (index = rank), a vector returned by transform has the vocabulary's     *)
(* length, and fitting any permutation of the fitted corpus gives the same *)
(* vocabulary and idf.                                                     *)
(***************************************************************************)
Reorderings(s) ==
    {[i \in 1..Len(s) |-> s[f[i]]] :
        f \in {g \in [1..Len(s) -> 1..Len(s)] : \A i, j \in 1..Len(s) : i # j => g[i] # g[j]}}

C15_VocabularyAligned ==
    stage = "embedder" =>
        /\ Len(idf) = Len(vocabulary)
        /\ \A i, j \in 1..Len(vocabulary) :
               i < j => StrLess(vocabulary[i], vocabulary[j])
        /\ Range(vocabulary)
               = UNION {Range(tokenize(embed.documents[i])) : i \in 1..Len(embed.documents)}
        /\ (embed.op = "transform" /\ embed.outcome = "ok") =>
               Len(embed.vector) = Len(vocabulary)
        /\ \A p \in Reorderings(embed.documents) :
               FitVocabulary(p) = vocabulary /\ FitIdf(p) = idf

\* A vector returned after a second fit on two different documents whose
\* tokens do not come in sorted order.
C15_Witness ==
    /\ stage = "embedder"
    /\ embed.fits >= 2
    /\ embed.op = "transform"
    /\ embed.outcome = "ok"
    /\ Len(embed.documents) >= 2
    /\ embed.documents[1] # embed.documents[2]
    /\ AllTokens(embed.documents) # vocabulary
    /\ \E i, j \in 1..Len(embed.vector) : embed.vector[i] # 0 /\ embed.vector[j] = 0

(***************************************************************************)
(* C16: for the corpus "Alice met Bob in Paris.", "Bob travels to Paris    *)
(* often." and the question "Where did Bob go?", the second chunk scores   *)
(* at least as much as the first, and the results hold the first chunk as  *)
(* an expansion of the top seed with a trail through the entity paris.     *)
(***************************************************************************)
IsScenario == Texts(chunks) = <<AliceMetBob, BobTravels>>

FirstChunk == ChunkId(DocId(1), 0)

SecondChunk == ChunkId(DocId(2), 0)

C16_ScenarioExpandsViaParis ==
    (IsScenario /\ Returned /\ last.text = WhereDidBobGo /\ last.k >= 1) =>
        /\ ChunkScore(last.text, SecondChunk) >= ChunkScore(last.text, FirstChunk)
        /\ \E i \in 1..Len(last.results) :
               /\ last.results[i].chunk_id = FirstChunk
               /\ last.results[i].trail = <<SeedIds[1], <<"p", "a", "r", "i", "s">>, FirstChunk>>

(***************************************************************************)
(* C19                                                                     *)
(***************************************************************************)
\* The call is under way or over, and 0 <= overlap < max_tokens.
ChunkPre ==
    /\ chunker.pc # "none"
    /\ 0 <= chunker.overlap
    /\ chunker.overlap < chunker.max_tokens

\* What holds of the chunks made so far, and of the list at the return.
ChunksWellFormed ==
    ChunkPre =>
        /\ \A i \in 1..Len(chunker.chunks) :
               /\ chunker.chunks[i].chunk_id =
                      chunker.doc_id \o <<":", ":", "c", "h", "u", "n", "k", "-">>
                                     \o <<Digit(i - 1)>>
               /\ Len(Split(chunker.chunks[i].text)) <= chunker.max_tokens
        /\ chunker.pc = "done" =>
               /\ chunks = chunker.chunks
               /\ \A t \in Range(Split(doc_list[1].body)) :
                      \E i \in 1..Len(chunks) : t \in Range(Split(chunks[i].text))
               /\ (Split(doc_list[1].body) = <<>>) => (chunks = <<>>)

\* From one pass of the loop to the next the window starts further right.
StartIncreases ==
    (ChunkPre /\ chunker.pc = "loop" /\ chunker'.pc = "loop")
        => chunker'.start > chunker.start

DistinctDocIds ==
    \A i \in 1..Len(doc_list), j \in 1..Len(doc_list) :
        i # j => doc_list[i].doc_id # doc_list[j].doc_id

ChunkNodes == {n \in Range(graph.nodes) : NodeType(n) = "chunk"}

\* C18: in a pipeline built by from_path over documents with distinct ids,
\* the chunk ids are pairwise distinct, the keys of chunk_index, the keys of
\* chunk_embeddings and the chunk-type nodes of the graph are the same set,
\* and no query on a non-empty corpus fails with a missing-key error.
C18_ChunkIdsAgree ==
    (stage = "built" /\ DistinctDocIds) =>
        /\ \A i \in 1..Len(chunks), j \in 1..Len(chunks) :
               i # j => chunks[i].chunk_id # chunks[j].chunk_id
        /\ DictKeys(chunk_index) = ChunkIds
        /\ DictKeys(chunk_embeddings) = ChunkIds
        /\ ChunkNodes = ChunkIds
        /\ (chunks # <<>> /\ Called) => last.outcome # "KeyError"

\* A query that returned, on a pipeline over two documents one of which was
\* cut into two chunks.
C18_Witness ==
    /\ stage = "built"
    /\ Returned
    /\ Len(doc_list) = 2
    /\ Len(chunks) >= 3
    /\ \E i \in 1..Len(chunks) : chunks[i].chunk_id = ChunkId(chunks[i].doc_id, 1)
    /\ \E i \in 1..Len(last.results) : Len(last.results[i].trail) = 3

(***************************************************************************)
(* C17                                                                     *)
(***************************************************************************)
\* The retriever's state is the one from_path built.
AsBuilt ==
    /\ graph = build_graph(chunks, entities, extract_relations(chunks, entities))
    /\ chunk_index = ChunkIndex(chunks, <<>>)
    /\ vocabulary = FitVocabulary(Texts(chunks))
    /\ idf = FitIdf(Texts(chunks))
    /\ chunk_embeddings = ChunkEmbeddings(chunks, vocabulary, idf, <<>>)

\* What query(text, k) returns when it runs alone on the retriever as built,
\* its visited set starting empty.
Alone(text, k) ==
    IF vocabulary = <<>> THEN [outcome |-> "RuntimeError", results |-> <<>>]
    ELSE LET seeds == TopChunks(score_chunks(Transform(vocabulary, idf, text)), k)
             pass == ExpandSeeds([results |-> <<>>, visited |-> {}, error |-> None], seeds)
         IN  IF pass.error # None THEN [outcome |-> pass.error, results |-> <<>>]
             ELSE [outcome |-> "ok", results |-> SortResults(pass.results)]

\* C17: queries leave the graph, the chunk index, the chunk embeddings, the
\* vocabulary and the idf list as they were built, and every call, whether
\* it ran after or interleaved with other calls, returns what the same call
\* returns alone on the freshly built retriever.
C17_QueriesIndependent ==
    /\ AsBuilt
    /\ \A p \in DOMAIN calls :
           calls[p].pc = "done" =>
               /\ calls[p].outcome = Alone(calls[p].text, calls[p].k).outcome
               /\ calls[p].results = Alone(calls[p].text, calls[p].k).results

\* Two finished calls with different questions, one of which ran while the
\* other was in progress and returned an expansion result.
C17_Witness ==
    /\ calls # <<>>
    /\ calls[1].pc = "done" /\ calls[2].pc = "done"
    /\ calls[1].outcome = "ok" /\ calls[2].outcome = "ok"
    /\ calls[1].text # calls[2].text
    /\ calls[1].overlapped
    /\ \E i \in 1..Len(calls[1].results) : IsExpansionResult(calls[1].results[i])
    /\ calls[2].results # <<>>

====
